---- MODULE Spec2Model ----
(***************************************************************************)
(* A* over a 2D grid of tiles (AStarTiles.findPath) together with the grid *)
(* it searches (Grid2D / TileNode) and the directive that drives it.       *)
(*                                                                         *)
(* Costs are real numbers of the form (a + b*sqrt(2)) / 2 with integer a   *)
(* and b: the step costs 1 and sqrt(2), the cost multipliers (multiples of *)
(* one half) and the diagonal heuristic all stay inside that set, so the   *)
(* model keeps the pair <<a, b>> and compares pairs exactly.  The program   *)
(* computes in IEEE doubles; rounding can only decide between costs that   *)
(* are equal as reals, which the stated properties do not depend on.       *)
(***************************************************************************)
EXTENDS Integers, Sequences, FiniteSets, TLC

\* ------------------------------------------------------------------ bounds
\* largest grid (rows and columns) of the general specifications
MaxRows == 3
MaxCols == 3
\* most barrier tiles (isReachable(.., false)) a grid setup places
MaxBarriers == 3
\* most hazard tiles (isHazard) a grid setup places
MaxHazards == 1
\* most barrier tiles of a setup that also places hazards
TerrainBarriers == 1
\* most findPath calls made on one pathfinder in the repeated-call specification
MaxCalls == 3
\* grid of the directive specification
LifeRows == 2
LifeCols == 3
\* most barrier tiles on the directive's grid
LifeBarriers == 1
\* most grid events (a new grid, a setup applied) of the directive
MaxEdits == 2

\* ------------------------------------------------------- numbers (a+b*sqrt2)/2
Val(a, b) == <<a, b>>
Zero == Val(0, 0)
Plus(x, y) == Val(x[1] + y[1], x[2] + y[2])

\* x < y, exactly: the sign of p + q*sqrt(2) for integers p, q
Less(x, y) ==
    LET p == x[1] - y[1]
        q == x[2] - y[2]
    IN  IF p >= 0 /\ q >= 0 THEN FALSE
        ELSE IF p <= 0 /\ q <= 0 THEN TRUE
        ELSE IF p > 0 THEN p * p < 2 * q * q
        ELSE 2 * q * q < p * p

Greater(x, y) == Less(y, x)

Abs(n) == IF n < 0 THEN -n ELSE n
Min(m, n) == IF m < n THEN m ELSE n
Max(m, n) == IF m < n THEN n ELSE m

\* ------------------------------------------------------------------- state
VARIABLES
    numRows, numCols,       \* Grid2D: dimensions
    reachable,              \* TileNode.reachable, per tile
    multiplier,             \* TileNode.multiplier, per tile, in halves (2 is 1.0)
    startNode, targetNode,  \* Grid2D: designated start / target tile, or NoNode
    g, h, f, parent,        \* TileNode: search fields, per tile
    openList, closedList,   \* AStarTiles._openList / _closedList
    aStart, aTarget,        \* AStarTiles._startNode / _targetNode
    heuristic,              \* AStarTiles._heuristic
    node,                   \* findPath: the local `node`
    pc,                     \* findPath: position in the method
    path,                   \* findPath: the array being returned
    outcome,                \* how the last findPath call ended
    calls,                  \* findPath calls started so far
    hist,                   \* the calls that ended: configuration, outcome, path
    edits                   \* grids built and setups applied by the directive

vars == <<numRows, numCols, reachable, multiplier, startNode, targetNode,
          g, h, f, parent, openList, closedList, aStart, aTarget, heuristic,
          node, pc, path, outcome, calls, hist, edits>>

gridVars == <<numRows, numCols, reachable, multiplier, startNode, targetNode>>
tileVars == <<g, h, f, parent>>

\* a null / unset node reference
NoNode == <<>>

Tiles(rows, cols) == (0 .. rows - 1) \X (0 .. cols - 1)
Cells == Tiles(numRows, numCols)

\* Grid2D.getNode(i, j)
getNode(i, j) == <<i, j>>
Row(n) == n[1]
Col(n) == n[2]

\* ------------------------------------------------------------- heuristics
\* a + b*sqrt(2) for integers a, b, in the model's unit of one half
Num(a, b) == Val(2 * a, 2 * b)

\* AStarTiles.__diagonal: straight + (SQRT2 - 2) * diagonal
diagonal(n, target) ==
    LET dx == Abs(Col(n) - Col(target))
        dy == Abs(Row(n) - Row(target))
        diag == Min(dx, dy)
        straight == dx + dy
    IN  Num(straight - 2 * diag, diag)

\* heuristics a caller may inject through the `heuristic` setter:
\* (node, target) => 3 * |node.row - target.row|: overestimates along rows only
rowBiased(n, target) == Num(3 * Abs(Row(n) - Row(target)), 0)

\* (node, target) => 0 is "zero"
Heuristics == {"diagonal", "rowBiased", "zero"}

\* this._heuristic(n, target); the constant heuristic does not read target
Heuristic(hh, n, target) ==
    CASE hh = "diagonal"  -> diagonal(n, target)
      [] hh = "rowBiased" -> rowBiased(n, target)
      [] OTHER            -> Zero

\* this._heuristic(n, null): every heuristic that reads target.row / target.col
\* raises a TypeError, the constant heuristic does not
HeuristicThrows(hh, target) == target = NoNode /\ hh # "zero"

\* ---------------------------------------------------------------- findPath
\* lines 169-177: the tiles of the 3x3 block around `n`, clipped to the grid, in
\* the order the nested loops visit them
ScanOrder(n) ==
    LET iStart == Max(0, Row(n) - 1)
        iEnd   == Min(numRows - 1, Row(n) + 1)
        jStart == Max(0, Col(n) - 1)
        jEnd   == Min(numCols - 1, Col(n) + 1)
        w      == jEnd - jStart + 1
    IN  [k \in 1 .. (iEnd - iStart + 1) * w |->
            getNode(iStart + ((k - 1) \div w), jStart + ((k - 1) % w))]

\* the `continue` test without its two flanking-tile conditions
SkippedNoFlanks(n, temp) ==
    \/ temp = n
    \/ ~reachable[temp]

\* the `continue` test with the second flanking-tile condition forgotten
SkippedOneFlank(n, temp) ==
    \/ temp = n
    \/ ~reachable[temp]
    \/ ~reachable[getNode(Row(n), Col(temp))]

\* lines 182-186: the `continue` test
Skipped(n, temp) ==
    \/ temp = n
    \/ ~reachable[temp]
    \/ ~reachable[getNode(Row(n), Col(temp))]
    \/ ~reachable[getNode(Row(temp), Col(n))]


\* lines 188-193: cost * temp.multiplier, cost = 1 or SQRT2
StepCost(n, temp) ==
    IF ~((Row(n) = Row(temp)) \/ (Col(n) = Col(temp)))
    THEN Val(0, multiplier[temp])
    ELSE Val(multiplier[temp], 0)

\* __isInOpenList
isInOpenList(open, n) == \E k \in 1 .. Len(open) : open[k] = n

\* the closed list never consulted: a closed tile counts as unseen
isInClosedListNever(n) == FALSE

\* __isInClosedList
isInClosedList(n) == \E k \in 1 .. Len(closedList) : closedList[k] = n


\* the test left out: a tile already in a list is always rewritten
ImprovesAlways(oldF, newF) == TRUE

\* line 199: temp.f > f
Improves(oldF, newF) == Greater(oldF, newF)

\* lines 179-217: one pass of the loop body for the tile `temp`
Visit(st, n, temp) ==
    IF Skipped(n, temp) THEN st
    ELSE
        LET gg == Plus(st.g[n], StepCost(n, temp))
            hv == Heuristic(heuristic, temp, aTarget)
            ff == Plus(gg, hv)
            set == [st EXCEPT !.parent[temp] = n, !.f[temp] = ff,
                              !.g[temp] = gg, !.h[temp] = hv]
        IN  IF isInOpenList(st.open, temp) \/ isInClosedList(temp)
            THEN IF Improves(st.f[temp], ff) THEN set ELSE st
            ELSE [set EXCEPT !.open = Append(st.open, temp)]

RECURSIVE Scan(_, _, _, _)
Scan(st, n, order, k) ==
    IF k > Len(order) THEN st
    ELSE Scan(Visit(st, n, order[k]), n, order, k + 1)

\* the tile fields and the open list after lines 175-219 ran for `n`
Scanned(n) ==
    Scan([g |-> g, h |-> h, f |-> f, parent |-> parent, open |-> openList],
         n, ScanOrder(n), 1)

\* the comparator with its two results exchanged: the sort is descending
compareReversed(a, b) == IF f[a] = f[b] THEN 0 ELSE IF Greater(f[a], f[b]) THEN -1 ELSE 1

\* lines 228-230: the comparator
compare(a, b) == IF f[a] = f[b] THEN 0 ELSE IF Greater(f[a], f[b]) THEN 1 ELSE -1

\* Array.prototype.sort with that comparator (stable): insertion of x behind
\* every element that does not compare greater
RECURSIVE Insert(_, _)
Insert(sorted, x) ==
    IF sorted = <<>> THEN <<x>>
    ELSE IF compare(Head(sorted), x) > 0 THEN <<x>> \o sorted
    ELSE <<Head(sorted)>> \o Insert(Tail(sorted), x)

RECURSIVE SortOnF(_)
SortOnF(list) ==
    IF list = <<>> THEN <<>>
    ELSE Insert(SortOnF(SubSeq(list, 1, Len(list) - 1)), list[Len(list)])

\* the configuration a call ran on and what it returned
Record(how, p) ==
    [start |-> startNode, target |-> targetNode, heuristic |-> heuristic,
     reachable |-> reachable, multiplier |-> multiplier, outcome |-> how, path |-> p]

\* findPath raises (a TypeError on a null reference): nothing is returned
Throw ==
    /\ pc' = "idle"
    /\ outcome' = "threw"
    /\ path' = <<>>
    /\ node' = NoNode
    /\ hist' = Append(hist, Record("threw", <<>>))

\* findPath returns the array p
Return(p) ==
    /\ pc' = "idle"
    /\ outcome' = "returned"
    /\ path' = p
    /\ node' = NoNode
    /\ hist' = Append(hist, Record("returned", p))

\* the reset of a list left out
untouched(list) == list

\* lines 140-141: list.length = 0
truncate(list) == <<>>

\* lines 139-152: reset the lists, take start and target from the grid, set the
\* start tile's g, h, f.  this._startNode.g = 0 raises on a null start; the
\* heuristic raises on a null target, after g was written.
FindPath(limit) ==
    /\ pc = "idle"
    /\ calls < limit
    /\ calls' = calls + 1
    /\ openList' = truncate(openList)
    /\ closedList' = truncate(closedList)
    /\ aStart' = startNode
    /\ aTarget' = targetNode
    /\ UNCHANGED <<gridVars, heuristic, parent, edits>>
    /\ IF startNode = NoNode
       THEN /\ Throw
            /\ UNCHANGED <<g, h, f>>
       ELSE /\ g' = [g EXCEPT ![startNode] = Zero]
            /\ IF HeuristicThrows(heuristic, targetNode)
               THEN /\ Throw
                    /\ UNCHANGED <<h, f>>
               ELSE LET hv == Heuristic(heuristic, startNode, targetNode)
                    IN  /\ h' = [h EXCEPT ![startNode] = hv]
                        /\ f' = [f EXCEPT ![startNode] = Plus(Zero, hv)]
                        /\ node' = startNode
                        /\ pc' = "loop"
                        /\ outcome' = "running"
                        /\ UNCHANGED <<path, hist>>

\* lines 167-221: the loop test fails to end the loop, the neighbours of `node`
\* are visited and `node` is pushed on the closed list
Expand ==
    /\ pc = "loop"
    /\ node # aTarget
    /\ LET st == Scanned(node)
       IN  /\ g' = st.g
           /\ h' = st.h
           /\ f' = st.f
           /\ parent' = st.parent
           /\ openList' = st.open
    /\ closedList' = Append(closedList, node)
    /\ pc' = "select"
    /\ UNCHANGED <<gridVars, aStart, aTarget, heuristic, node, path, outcome,
                   calls, hist, edits>>

\* lines 223-225: the open list is empty, return []
ReturnEmpty ==
    /\ pc = "select"
    /\ Len(openList) = 0
    /\ Return(<<>>)
    /\ UNCHANGED <<gridVars, tileVars, openList, closedList, aStart, aTarget,
                   heuristic, calls, edits>>

\* lines 227-232: sort on f, shift the first tile
SelectNext ==
    /\ pc = "select"
    /\ Len(openList) # 0
    /\ LET sorted == SortOnF(openList)
       IN  /\ node' = Head(sorted)
           /\ openList' = Tail(sorted)
    /\ pc' = "loop"
    /\ UNCHANGED <<gridVars, tileVars, closedList, aStart, aTarget, heuristic,
                   path, outcome, calls, hist, edits>>

\* lines 235-238: the loop ended at the target; the path starts as [target]
StartPath ==
    /\ pc = "loop"
    /\ node = aTarget
    /\ path' = <<aTarget>>
    /\ node' = aTarget
    /\ pc' = "walk"
    /\ UNCHANGED <<gridVars, tileVars, openList, closedList, aStart, aTarget,
                   heuristic, outcome, calls, hist, edits>>

\* path.push(node) in place of path.unshift(node)
push(p, n) == Append(p, n)

\* line 243: path.unshift(node)
unshift(p, n) == <<n>> \o p

\* the loop test left out: the loop walks on past the start tile
reconstructingAlways(n) == TRUE

\* line 240: the test of the reconstruction loop, node !== this._startNode
reconstructing(n) == n # aStart

\* lines 240-244: one pass of the reconstruction loop.  Past a tile without a
\* parent `node` is null and node.parent raises.
WalkBack ==
    /\ pc = "walk"
    /\ reconstructing(node)
    /\ IF node = NoNode
       THEN Throw
       ELSE /\ node' = parent[node]
            /\ path' = unshift(path, parent[node])
            /\ UNCHANGED <<pc, outcome, hist>>
    /\ UNCHANGED <<gridVars, tileVars, openList, closedList, aStart, aTarget,
                   heuristic, calls, edits>>

\* line 246: return path
ReturnPath ==
    /\ pc = "walk"
    /\ ~reconstructing(node)
    /\ Return(path)
    /\ UNCHANGED <<gridVars, tileVars, openList, closedList, aStart, aTarget,
                   heuristic, calls, edits>>

\* ------------------------------------------------------------ construction
\* the multipliers a hazard tile may carry, in halves: 0.5 and 2.0
HazardMultipliers == {1, 4}
\* TileNode's default multiplier, 1.0
DefaultMultiplier == 2

\* new Grid2D(rows, cols) after a setup function ran on it (assignGrid): the
\* tiles in `barriers` made unreachable, the tiles of `hazards` given their
\* multiplier, start and target designated or left unset; new AStarTiles() with
\* the heuristic `hh` assigned; no search has run
Constructed(rows, cols, barriers, hazards, s, t, hh) ==
    /\ numRows = rows
    /\ numCols = cols
    /\ reachable = [n \in Tiles(rows, cols) |-> n \notin barriers]
    /\ multiplier = [n \in Tiles(rows, cols) |->
                        IF n \in DOMAIN hazards THEN hazards[n] ELSE DefaultMultiplier]
    /\ startNode = s
    /\ targetNode = t
    /\ g = [n \in Tiles(rows, cols) |-> Zero]
    /\ h = [n \in Tiles(rows, cols) |-> Zero]
    /\ f = [n \in Tiles(rows, cols) |-> Zero]
    /\ parent = [n \in Tiles(rows, cols) |-> NoNode]
    /\ openList = <<>>
    /\ closedList = <<>>
    /\ aStart = NoNode
    /\ aTarget = NoNode
    /\ heuristic = hh
    /\ node = NoNode
    /\ pc = "idle"
    /\ path = <<>>
    /\ outcome = "none"
    /\ calls = 0
    /\ hist = <<>>
    /\ edits = 0

\* the sets of at most `most` tiles
UpTo(tiles, most) == {x \in SUBSET tiles : Cardinality(x) <= most}

\* the hazard assignments of at most `most` tiles
HazardMaps(tiles, most) ==
    UNION {[hz -> HazardMultipliers] : hz \in UpTo(tiles, most)}

\* start / target as a setup leaves them: a tile, or unset
Designations(tiles) == tiles \cup {NoNode}

\* setups that only place barriers: at most MaxBarriers of them, every multiplier
\* 1.0, the default heuristic
InitWalls ==
    \E barriers \in UpTo(Tiles(MaxRows, MaxCols), MaxBarriers),
       s \in Designations(Tiles(MaxRows, MaxCols)),
       t \in Designations(Tiles(MaxRows, MaxCols)) :
        Constructed(MaxRows, MaxCols, barriers, <<>>, s, t, "diagonal")

\* setups with hazards and an injected heuristic: at most TerrainBarriers
\* barriers, at most MaxHazards hazards
InitTerrain ==
    \E barriers \in UpTo(Tiles(MaxRows, MaxCols), TerrainBarriers),
       hazards \in HazardMaps(Tiles(MaxRows, MaxCols), MaxHazards),
       s \in Designations(Tiles(MaxRows, MaxCols)),
       t \in Designations(Tiles(MaxRows, MaxCols)),
       hh \in Heuristics :
        Constructed(MaxRows, MaxCols, barriers, hazards, s, t, hh)

Init == InitWalls \/ InitTerrain

Next ==
    \/ FindPath(1)
    \/ Expand
    \/ ReturnEmpty
    \/ SelectNext
    \/ StartPath
    \/ WalkBack
    \/ ReturnPath

Spec == Init /\ [][Next]_vars

\* findPath is synchronous: once called, it takes its next step until it returns
\* or raises.  Nothing obliges a caller to call it.
Run == Expand \/ ReturnEmpty \/ SelectNext \/ StartPath \/ WalkBack \/ ReturnPath

\* ENABLED <<Run>>_vars: inside a call exactly one of the steps of Run can be
\* taken, and it changes pc, node or path
Running == pc # "idle"

\* weak fairness of Run, WF_vars(Run), with ENABLED <<Run>>_vars written as
\* Running
FairRun == []<>(~Running) \/ []<><<Run>>_vars

\* the setups of the fair specification: the small grid, start and target
\* designated, barriers, hazards and every heuristic
InitLive ==
    \E barriers \in UpTo(Tiles(LifeRows, LifeCols), LifeBarriers),
       hazards \in HazardMaps(Tiles(LifeRows, LifeCols), MaxHazards),
       s \in Tiles(LifeRows, LifeCols),
       t \in Tiles(LifeRows, LifeCols),
       hh \in Heuristics :
        Constructed(LifeRows, LifeCols, barriers, hazards, s, t, hh)

SpecLive == InitLive /\ [][Next]_vars /\ FairRun

\* the go-around scenario: a 5x5 grid, a wall in column 2 that leaves one row open
\* (or none), start (0,0), target (0,4)
Scenario == [rows |-> 5, cols |-> 5, wall |-> 2,
             start |-> <<0, 0>>, target |-> <<0, 4>>]
Wall(gap) == {n \in Tiles(Scenario.rows, Scenario.cols) :
                Col(n) = Scenario.wall /\ Row(n) # gap}

InitScenario ==
    \E gap \in 0 .. Scenario.rows, hh \in Heuristics :
        Constructed(Scenario.rows, Scenario.cols, Wall(gap), <<>>,
                    Scenario.start, Scenario.target, hh)

SpecScenario == InitScenario /\ [][Next]_vars

\* ------------------------------------------------------------- the directive
\* CanvasTileDirective.ngOnChanges, case 'cellWidth': a new Grid2D of new tiles
\* replaces the grid; the pathfinder is kept, with what its last call left in it
NgOnChanges ==
    /\ pc = "idle"
    /\ edits < MaxEdits
    /\ edits' = edits + 1
    /\ reachable' = [n \in Cells |-> TRUE]
    /\ multiplier' = [n \in Cells |-> DefaultMultiplier]
    /\ startNode' = NoNode
    /\ targetNode' = NoNode
    /\ g' = [n \in Cells |-> Zero]
    /\ h' = [n \in Cells |-> Zero]
    /\ f' = [n \in Cells |-> Zero]
    /\ parent' = [n \in Cells |-> NoNode]
    /\ UNCHANGED <<numRows, numCols, openList, closedList, aStart, aTarget,
                   heuristic, node, pc, path, outcome, calls, hist>>

\* CanvasTileDirective.assignGrid(fcn): the setup function marks barriers and
\* designates start and target (NoNode: it leaves that designation alone)
AssignGrid ==
    /\ pc = "idle"
    /\ edits < MaxEdits
    /\ edits' = edits + 1
    /\ \E barriers \in UpTo(Cells, LifeBarriers), s \in Designations(Cells),
          t \in Designations(Cells) :
        /\ Cardinality({n \in Cells : ~reachable[n]} \cup barriers) <= LifeBarriers
        /\ reachable' = [n \in Cells |-> reachable[n] /\ n \notin barriers]
        /\ startNode' = IF s = NoNode THEN startNode ELSE s
        /\ targetNode' = IF t = NoNode THEN targetNode ELSE t
    /\ UNCHANGED <<numRows, numCols, multiplier, tileVars, openList, closedList,
                   aStart, aTarget, heuristic, node, pc, path, outcome, calls, hist>>

\* CanvasTileDirective.showOptimalPath: findPath on the directive's grid
ShowOptimalPath == FindPath(MaxCalls)

\* the directive after its first ngOnChanges: an empty grid, a new pathfinder
InitDirective ==
    Constructed(LifeRows, LifeCols, {}, <<>>, NoNode, NoNode, "diagonal")

NextDirective ==
    \/ NgOnChanges
    \/ AssignGrid
    \/ ShowOptimalPath
    \/ Expand
    \/ ReturnEmpty
    \/ SelectNext
    \/ StartPath
    \/ WalkBack
    \/ ReturnPath

SpecDirective == InitDirective /\ [][NextDirective]_vars

\* ------------------------------------------------------------------ claims
\* a call of findPath has returned its array (possibly empty)
Returned == pc = "idle" /\ outcome = "returned"

\* the move rule of the specification: a step into a reachable tile of the 3x3
\* block, both flanking tiles reachable
IsNeighbour(a, b) ==
    a # b /\ Abs(Row(a) - Row(b)) <= 1 /\ Abs(Col(a) - Col(b)) <= 1
IsDiagonal(a, b) == Row(a) # Row(b) /\ Col(a) # Col(b)
LegalMove(a, b) ==
    /\ IsNeighbour(a, b)
    /\ reachable[b]
    /\ reachable[<<Row(a), Col(b)>>]
    /\ reachable[<<Row(b), Col(a)>>]

\* the cost of one step: 1 or sqrt(2), times the entered tile's multiplier
MoveCost(a, b) ==
    IF IsDiagonal(a, b) THEN Val(0, multiplier[b]) ELSE Val(multiplier[b], 0)

RECURSIVE PathCost(_)
PathCost(p) ==
    IF Len(p) <= 1 THEN Zero
    ELSE Plus(MoveCost(p[1], p[2]), PathCost(Tail(p)))

\* the tiles a sequence of legal moves reaches from `from`: `seen` grows by the
\* tiles one move away from the tiles added last
RECURSIVE Closure(_, _)
Closure(seen, last) ==
    LET more == {n \in Cells \ seen : \E m \in last : LegalMove(m, n)}
    IN  IF more = {} THEN seen ELSE Closure(seen \cup more, more)
ReachSet(from) == Closure({from}, {from})

\* p is a sequence of legal moves from tile a to tile b
IsLegalPath(p, a, b) ==
    /\ p # <<>>
    /\ p[1] = a
    /\ p[Len(p)] = b
    /\ \A k \in 1 .. Len(p) - 1 : LegalMove(p[k], p[k + 1])

\* the least cost of a legal path from `from` to every tile one reaches: settle
\* the tiles in order of cost, each from the settled tile that enters it cheapest
\* (`done` holds <<tile, cost>> pairs)
Least(pairs) == CHOOSE x \in pairs : \A y \in pairs : ~Less(y[2], x[2])
RECURSIVE Settle(_)
Settle(done) ==
    LET settled == {d[1] : d \in done}
        cand == {<<e[2], Plus(e[1][2], MoveCost(e[1][1], e[2]))>> :
                    e \in {e \in done \X (Cells \ settled) : LegalMove(e[1][1], e[2])}}
    IN  IF cand = {} THEN done ELSE Settle(done \cup {Least(cand)})
MinCost(from, to) ==
    LET hit == CHOOSE d \in Settle({<<from, Zero>>}) : d[1] = to
    IN  hit[2]

\* start and target are designated tiles, both reachable
Designated == aStart # NoNode /\ aTarget # NoNode
EndsReachable == Designated /\ reachable[aStart] /\ reachable[aTarget]
AllUnit == \A n \in Cells : multiplier[n] = DefaultMultiplier

\* C1: with every multiplier 1, the default heuristic and start and target
\* reachable tiles joined by a legal path, findPath returns a legal path from
\* start to target whose cost is the least cost of any such path
C1_OptimalOnUnitGrid ==
    (Returned /\ AllUnit /\ heuristic = "diagonal" /\ EndsReachable
        /\ aTarget \in ReachSet(aStart))
    => /\ IsLegalPath(path, aStart, aTarget)
       /\ PathCost(path) = MinCost(aStart, aTarget)

\* C1 happens: an optimal path was returned that bends around a barrier
C1_Witness ==
    /\ Returned /\ AllUnit /\ heuristic = "diagonal" /\ EndsReachable
    /\ Len(path) >= 5
    /\ PathCost(path) = MinCost(aStart, aTarget)
    /\ Less(diagonal(aStart, aTarget), PathCost(path))

\* C2: when no sequence of legal moves leads from start to target, findPath
\* returns the empty array, and whenever it returns the empty array the open
\* list is empty
C2_EmptyWhenUnreachable ==
    /\ (Returned /\ Designated /\ aTarget \notin ReachSet(aStart)) => path = <<>>
    /\ (Returned /\ path = <<>>) => openList = <<>>

\* C2 happens: the search closed several tiles, ran out of open tiles and
\* returned the empty array for a reachable-flagged target that is walled in
C2_Witness ==
    /\ Returned /\ EndsReachable /\ aTarget \notin ReachSet(aStart)
    /\ path = <<>>
    /\ Len(closedList) >= 3

\* C3: when start and target are reachable tiles joined by a legal path, the
\* returned array is not empty, starts at start, ends at target, and every two
\* consecutive tiles are distinct tiles of one 3x3 block
C3_PathShape ==
    (Returned /\ EndsReachable /\ aTarget \in ReachSet(aStart))
    => /\ path # <<>>
       /\ path[1] = aStart
       /\ path[Len(path)] = aTarget
       /\ \A k \in 1 .. Len(path) - 1 : IsNeighbour(path[k], path[k + 1])

\* C3 happens: a path of several steps was returned
C3_Witness ==
    /\ Returned /\ EndsReachable /\ aTarget \in ReachSet(aStart)
    /\ Len(path) >= 4
    /\ path[1] = aStart /\ path[Len(path)] = aTarget

\* C4: no returned path has a diagonal step with an unreachable flanking tile
C4_NoCornerCutting ==
    Returned =>
        \A k \in 1 .. Len(path) - 1 :
            IsDiagonal(path[k], path[k + 1]) =>
                /\ reachable[<<Row(path[k]), Col(path[k + 1])>>]
                /\ reachable[<<Row(path[k + 1]), Col(path[k])>>]

\* C4 happens: a returned path takes a diagonal step although a barrier is a
\* neighbour of both of its ends, and also passes a barrier corner orthogonally
C4_Witness ==
    /\ Returned
    /\ \E k \in 1 .. Len(path) - 1 : IsDiagonal(path[k], path[k + 1])
    /\ \E k \in 1 .. Len(path) - 1 : \E b \in Cells :
            /\ ~reachable[b]
            /\ IsNeighbour(path[k], b)
            /\ IsNeighbour(path[k + 1], b)
            /\ ~IsDiagonal(path[k], path[k + 1])

\* C5: an unreachable tile is never in the open list, is never the current tile
\* of the search and is never in a returned path
C5_UnreachableNeverUsed ==
    \A n \in Cells :
        ~reachable[n] =>
            /\ ~isInOpenList(openList, n)
            /\ (pc \in {"loop", "select"} => node # n)
            /\ (Returned => \A k \in 1 .. Len(path) : path[k] # n)

\* C7: with the designated start or target unreachable, findPath never returns
\* a non-empty path
C7_UnreachableEndsGiveNoPath ==
    (pc = "idle" /\ calls > 0 /\ Designated
        /\ (~reachable[aStart] \/ ~reachable[aTarget]))
    => ~(outcome = "returned" /\ path # <<>>)

\* C9: after a call returned a non-empty path, the g stored on the target tile is
\* the sum of the step costs along the returned path
C9_TargetGIsPathCost ==
    (Returned /\ path # <<>>) => g[aTarget] = PathCost(path)

\* the grid of the scenario with rows 0-3 of column 2 walled and row 4 open,
\* searched with the default heuristic
GoAround ==
    /\ numRows = Scenario.rows /\ numCols = Scenario.cols
    /\ \A n \in Cells : reachable[n] <=> n \notin Wall(4)
    /\ AllUnit
    /\ aStart = Scenario.start /\ aTarget = Scenario.target
    /\ heuristic = "diagonal"
ThroughRow(p, r) == \E k \in 1 .. Len(p) : Row(p[k]) = r

\* C8 as stated: the returned path passes through row 4 and has length 9
C8_GoAroundLength9 ==
    (Returned /\ GoAround) => (ThroughRow(path, 4) /\ Len(path) = 9)

\* C8, amended: the returned path passes through row 4 and has 11 tiles (10
\* steps): the wall's end cannot be passed diagonally
C8_GoAroundLength11 ==
    (Returned /\ GoAround) =>
        /\ ThroughRow(path, 4)
        /\ Len(path) = 11
        /\ IsLegalPath(path, Scenario.start, Scenario.target)

\* C8 happens: the search of the scenario grid has returned its path
C8_Witness == Returned /\ GoAround /\ path # <<>>

\* the next findPath call is made on a grid without a designated start or target
CallsUndesignated ==
    /\ pc = "idle"
    /\ calls' = calls + 1
    /\ (startNode = NoNode \/ targetNode = NoNode)

\* C6: a findPath call on a grid without a designated start or target ends in an
\* error, returns no path, and leaves every tile's g, h, f and parent and the open
\* and closed lists as they were before the call
C6_FailsBeforeMutation ==
    [][CallsUndesignated =>
        /\ outcome' = "threw"
        /\ path' = <<>>
        /\ UNCHANGED <<g, h, f, parent, openList, closedList>>]_vars

\* two calls ran on the same configuration: reachability, multipliers, start,
\* target and heuristic
SameGrid(a, b) ==
    /\ a.start = b.start
    /\ a.target = b.target
    /\ a.heuristic = b.heuristic
    /\ a.reachable = b.reachable
    /\ a.multiplier = b.multiplier

\* C10: of two consecutive findPath calls of one pathfinder on the same
\* configuration, the second returns the path the first returned, whatever the
\* calls before them left on the tiles
C10_SamePathTwice ==
    \A k \in 1 .. Len(hist) - 1 :
        (SameGrid(hist[k], hist[k + 1]) /\ hist[k].outcome = "returned")
        => /\ hist[k + 1].outcome = "returned"
           /\ hist[k + 1].path = hist[k].path

\* C10 happens: a run with another start or target returned a path, then two
\* calls on one configuration returned a path of several tiles, and a tile keeps
\* fields that only the first run wrote
C10_Witness ==
    /\ pc = "idle"
    /\ Len(hist) = 3
    /\ hist[1].outcome = "returned" /\ Len(hist[1].path) >= 2
    /\ ~SameGrid(hist[1], hist[2])
    /\ SameGrid(hist[2], hist[3])
    /\ hist[3].outcome = "returned" /\ Len(hist[3].path) >= 3
    /\ hist[3].path = hist[2].path
    /\ \E n \in Cells :
        /\ parent[n] # NoNode
        /\ n # aTarget
        /\ ~isInOpenList(openList, n)
        /\ ~isInClosedList(n)

\* start and target are one designated, reachable tile
SameEnds == Designated /\ aStart = aTarget /\ reachable[aStart]

\* C11: when start and target are the same reachable tile, findPath returns the
\* one-tile path [start], and its open and closed lists are empty at the return:
\* no tile was expanded (every expansion pushes on the closed list) and none
\* was opened
C11_SameEndsSingleTile ==
    (Returned /\ SameEnds)
    => /\ path = <<aStart>>
       /\ openList = <<>>
       /\ closedList = <<>>

\* C11 happens: after a call that searched and returned a path of several
\* tiles, a call with start = target returned [start]
C11_Witness ==
    /\ Returned /\ SameEnds
    /\ path = <<aStart>>
    /\ Len(hist) >= 2
    /\ Len(hist[Len(hist) - 1].path) >= 3
    /\ hist[Len(hist)].start = aStart

\* C12: every findPath call on a grid with start and target designated
\* eventually returns (multipliers are positive and heuristics non-negative in
\* every grid of the model)
C12_EveryCallReturns ==
    (outcome = "running" /\ Designated) ~> Returned

\* C12 happens: a call ended its expansion loop at the target after several
\* expansions, walked the parent links back to the start and returned
C12_Witness ==
    /\ Returned /\ Designated
    /\ Len(closedList) >= 3
    /\ Len(path) >= 3
    /\ path[1] = aStart /\ path[Len(path)] = aTarget

\* C13: along every non-empty returned path the g stored on the tiles does not
\* decrease from one tile to the next, and the g of its first tile, the start,
\* is 0
C13_GNonDecreasing ==
    (Returned /\ path # <<>>)
    => /\ path[1] = aStart
       /\ g[aStart] = Zero
       /\ \A k \in 1 .. Len(path) - 1 : ~Less(g[path[k + 1]], g[path[k]])

\* C13 happens: a path of several tiles was returned that enters a hazard tile,
\* with g growing from tile to tile
C13_Witness ==
    /\ Returned
    /\ Len(path) >= 3
    /\ g[path[1]] = Zero
    /\ Less(g[path[1]], g[path[2]]) /\ Less(g[path[2]], g[path[3]])
    /\ \E k \in 2 .. Len(path) : multiplier[path[k]] # DefaultMultiplier

\* C14: with the default heuristic and start and target reachable tiles, on
\* every grid of barriers and hazards (any positive multipliers) the returned
\* path is a legal path of least total cost, and the returned array is empty
\* exactly when no legal path leads from start to target
C14_OptimalWithHazards ==
    (Returned /\ heuristic = "diagonal" /\ EndsReachable)
    => IF aTarget \in ReachSet(aStart)
       THEN /\ IsLegalPath(path, aStart, aTarget)
            /\ PathCost(path) = MinCost(aStart, aTarget)
       ELSE path = <<>>

\* the tiles a run has written: its start, its target, and the tiles it put on
\* the open or the closed list
Discovered(n) ==
    \/ n = aStart
    \/ n = aTarget
    \/ isInOpenList(openList, n)
    \/ isInClosedList(n)

\* C15: after a findPath run every tile the run did not discover has g = 0,
\* h = 0, f = 0 and no parent, whatever earlier runs on the grid left behind
\* (the fields of all tiles are reset when a run starts)
C15_UndiscoveredAreNeutral ==
    Returned =>
        \A n \in Cells :
            ~Discovered(n) =>
                /\ g[n] = Zero
                /\ h[n] = Zero
                /\ f[n] = Zero
                /\ parent[n] = NoNode

\* following parent links from tile n reaches the start tile without passing a
\* tile twice (`seen` holds the tiles passed)
RECURSIVE ChainToStart(_, _)
ChainToStart(n, seen) ==
    IF n = aStart THEN TRUE
    ELSE IF n = NoNode \/ n \in seen THEN FALSE
    ELSE ChainToStart(parent[n], seen \cup {n})

\* a findPath call is between its prologue and its return
InRun == pc \in {"loop", "select", "walk"}

\* C16: at every step of a run, the parent links from every tile in the open or
\* the closed list, and from the current tile, lead to the start tile without
\* revisiting a tile; so does the chain from the target when reconstruction begins
C16_ParentChainsReachStart ==
    InRun =>
        /\ \A n \in Cells :
            (isInOpenList(openList, n) \/ isInClosedList(n)) => ChainToStart(n, {})
        /\ pc = "loop" => ChainToStart(node, {})
        /\ pc = "walk" => ChainToStart(aTarget, {})

\* C16 happens: reconstruction begins from a target several links away from the
\* start, in a run that began on tiles carrying the parent links of an earlier
\* run with another start
C16_Witness ==
    /\ pc = "walk"
    /\ node = aTarget
    /\ aTarget # aStart
    /\ parent[aTarget] # aStart
    /\ Len(hist) >= 1
    /\ hist[Len(hist)].outcome = "returned"
    /\ Len(hist[Len(hist)].path) >= 2
    /\ hist[Len(hist)].start # aStart
    /\ \E n \in Cells : ~Discovered(n) /\ parent[n] # NoNode

\* tile n occurs in the list; the list holds no tile twice
Holds(list, n) == \E k \in 1 .. Len(list) : list[k] = n
NoRepeats(list) ==
    \A j, k \in 1 .. Len(list) : list[j] = list[k] => j = k

\* the lists of a run: disjoint, without repeats, the start never open, and the
\* tile about to be expanded not closed before
ListsDisjoint ==
    /\ NoRepeats(openList)
    /\ NoRepeats(closedList)
    /\ \A n \in Cells : ~(Holds(openList, n) /\ Holds(closedList, n))
    /\ aStart # NoNode => ~Holds(openList, aStart)
    /\ pc = "loop" => ~Holds(closedList, node)

\* within a run a closed tile stays closed, and a tile enters the closed list
\* only as the current tile
ClosedForGood ==
    pc # "idle" =>
        \A n \in Cells :
            /\ Holds(closedList, n) => Holds(closedList', n)
            /\ (~Holds(closedList, n) /\ Holds(closedList', n)) => n = node

\* C17: within one run no tile is in the open and the closed list at once,
\* neither list holds a tile twice, a closed tile is never opened or made
\* current again, and the start tile is never opened
C17_PromotedOnce == []ListsDisjoint /\ [][ClosedForGood]_vars

\* C17 happens: a run is about to expand a tile taken from the open list whose
\* neighbours include closed tiles, with several tiles open and several closed
C17_Witness ==
    /\ pc = "loop"
    /\ node # aTarget
    /\ Len(closedList) >= 2
    /\ Len(openList) >= 2
    /\ \E n \in Cells : Holds(closedList, n) /\ n # aStart /\ LegalMove(node, n)
    /\ \E n \in Cells : Holds(openList, n) /\ LegalMove(node, n)

\* the step that takes a new current tile from the open list
Selecting == pc = "select" /\ pc' = "loop"

\* C18: each time a new current tile is chosen, it was in the open list, it is
\* removed from it (and nothing else is), and no tile left in the open list has
\* a smaller f
C18_SelectsLeastF ==
    [][Selecting =>
        /\ Holds(openList, node')
        /\ ~Holds(openList', node')
        /\ Len(openList') = Len(openList) - 1
        /\ \A n \in Cells :
            n # node' => (Holds(openList', n) <=> Holds(openList, n))
        /\ \A n \in Cells :
            Holds(openList', n) => ~Less(f[n], f[node'])]_vars

\* C18 happens: a tile was chosen ahead of open tiles of larger f and of an open
\* tile of the same f
C18_Witness ==
    /\ pc = "loop"
    /\ node # aStart
    /\ Len(closedList) >= 2
    /\ \E n \in Cells : Holds(openList, n) /\ Less(f[node], f[n])
    /\ \E n \in Cells : Holds(openList, n) /\ f[n] = f[node]

\* tile n is in the open or the closed list
Listed(n) == Holds(openList, n) \/ Holds(closedList, n)

\* a step writes one of the search fields of tile n
Rewritten(n) ==
    \/ parent'[n] # parent[n]
    \/ g'[n] # g[n]
    \/ h'[n] # h[n]
    \/ f'[n] # f[n]

\* C19: in every step of a run, a tile already in the open or the closed list
\* has its parent, g, h or f changed only together with a strict decrease of
\* its f, and its g never increases
C19_ListedOnlyImprove ==
    [][pc # "idle" =>
        \A n \in Cells :
            Listed(n) =>
                /\ Rewritten(n) => Less(f'[n], f[n])
                /\ ~Less(g[n], g'[n])]_vars

\* C19 happens: the expansion just made gave a new parent to a tile that an
\* earlier expansion had discovered, and left another listed neighbour as it was
C19_Witness ==
    /\ pc = "select"
    /\ \E n \in Cells, j, k \in 1 .. Len(closedList) :
        /\ j < k
        /\ closedList[k] = node
        /\ LegalMove(closedList[j], n)
        /\ n # node
        /\ parent[n] = node
    /\ \E n \in Cells :
        /\ Holds(closedList, n) \/ Holds(openList, n)
        /\ LegalMove(node, n)
        /\ parent[n] # node

\* showOptimalPath calls findPath on the directive's grid
CallsFindPath == pc = "idle" /\ calls' = calls + 1

\* the directive's grid was set up and searched before: its first findPath call
\* returned (ngOnChanges, then ngAfterViewInit's assignGrid, then a click)
SetUpBefore == Len(hist) >= 1 /\ hist[1].outcome = "returned"

\* C20: whenever showOptimalPath calls findPath, the grid it passes has both
\* its start and its target designated; stated for the calls that follow a
\* set-up and a first search, in whatever order events occur after that
C20_CalledOnAssignedGrid ==
    [][(CallsFindPath /\ SetUpBefore)
        => (startNode # NoNode /\ targetNode # NoNode)]_vars

====
